---- MODULE Spec2Model ----
(***************************************************************************)
(* A model of src/app.py: the verdict function get_verdict and the         *)
(* comparison workflow handle_comparison with its two Play Store           *)
(* collaborators, app() (lookup by package name) and search() (fallback    *)
(* search by app name).                                                    *)
(*                                                                         *)
(* A Python str is a sequence of one-character strings.  None is the       *)
(* empty tuple where a str or a dict may be absent.  Every Streamlit call  *)
(* the code makes is appended, in program order, to the sequence out.      *)
(***************************************************************************)
EXTENDS Integers, Sequences, FiniteSets, TLC

\* Longest app name / store title, longest version string, and the widest
\* score handed to the banner on its own.
MaxLen == 2
MaxVerLen == 1
MaxProbe == 120

Chars == {"a", "A", "b"}

StrsUpTo(S, n) == UNION {[1..k -> S] : k \in 0..n}

\* app_name and version_name are non-empty (line 138 rejects empty ones).
Names == StrsUpTo(Chars, MaxLen) \ {<<>>}
Versions == StrsUpTo(Chars, MaxVerLen) \ {<<>>}
Packages == {<<"p">>, <<"q">>}
Developers == {<<"D">>}
Urls == {<<"u">>}

\* What app() can return: a dict with title, version, developer and url.
Listings == [title : Names, version : Versions, developer : Developers, url : Urls]

None == <<>>

\* What search() can yield: result dicts with title, developer and appId.
Candidates == [title : {<<"a">>, <<"b">>}, developer : Developers, appId : {<<"p">>}]

\* The exceptions the two collaborators raise: type(e).__name__ and str(e).
LookupErrors == [type : {"NotFoundError", "ExtraHTTPError", "URLError"}, msg : {<<"m">>}]
SearchErrors == [type : {"NotFoundError", "ExtraHTTPError"}, msg : {<<"s">>}]

NoError == [type |-> "", msg |-> <<>>]

VARIABLES
    pc,             \* where handle_comparison stands
    app_name, package_name, version_name,   \* its arguments
    play_details,   \* <<d>> once app() has returned the dict d
    exc,            \* the exception caught at line 97
    search_results, \* <<r>> once search() has returned the list r
    search_e,       \* the exception caught at line 113
    score, reasons, \* get_verdict's locals, as its last call left them
    verdict_calls,  \* the arguments of every get_verdict call, in order
    lookup_calls,   \* the arguments of every app() call, in order
    search_calls,   \* the arguments of every search() call, in order
    out             \* the Streamlit calls made so far, in order

vars == <<pc, app_name, package_name, version_name, play_details, exc,
          search_results, search_e, score, reasons, verdict_calls,
          lookup_calls, search_calls, out>>

\* One Streamlit call: st.<fn>(...), its text identified by kind, with the
\* strings interpolated into the text as a and b.
St(fn, kind, a, b) == [fn |-> fn, kind |-> kind, a |-> a, b |-> b]

\* One entry of get_verdict's reasons list.
Reason(kind, a, b) == [kind |-> kind, a |-> a, b |-> b]

\* str.lower(), character by character.
LowerChar(c) == IF c = "A" THEN "a" ELSE c

lower(s) == [i \in 1..Len(s) |-> LowerChar(s[i])]

\* Python's `a in b` on two strs.
IsSubstring(a, b) ==
    \E i \in 0..(Len(b) - Len(a)) : SubSeq(b, i + 1, i + Len(a)) = a

\* Lines 52-54: the branch of an absent listing.
NotFoundMut == [penalty |-> 60, reason |-> Reason("AppNotFound", <<>>, <<>>)]

NotFoundBranch == [penalty |-> 50, reason |-> Reason("AppNotFound", <<>>, <<>>)]

\* Lines 56-65: the name comparison, on the lower-cased names.
NameCheckMut(apk_name, title) ==
    IF apk_name = title
    THEN [penalty |-> 0, reason |-> Reason("AppNameMatch", <<>>, <<>>)]
    ELSE IF IsSubstring(apk_name, title) \/ IsSubstring(title, apk_name)
    THEN [penalty |-> 15, reason |-> Reason("MinorNameMismatch", apk_name, title)]
    ELSE [penalty |-> 40, reason |-> Reason("MajorNameMismatch", apk_name, title)]

NameCheckHarsh(apk_name, title) ==
    LET apk_name_lower == lower(apk_name)
        store_name_lower == lower(title)
    IN  IF apk_name_lower = store_name_lower
        THEN [penalty |-> 0, reason |-> Reason("AppNameMatch", <<>>, <<>>)]
        ELSE IF IsSubstring(apk_name_lower, store_name_lower)
                \/ IsSubstring(store_name_lower, apk_name_lower)
        THEN [penalty |-> 15, reason |-> Reason("MinorNameMismatch", apk_name, title)]
        ELSE [penalty |-> 45, reason |-> Reason("MajorNameMismatch", apk_name, title)]

NameCheck(apk_name, title) ==
    LET apk_name_lower == lower(apk_name)
        store_name_lower == lower(title)
    IN  IF apk_name_lower = store_name_lower
        THEN [penalty |-> 0, reason |-> Reason("AppNameMatch", <<>>, <<>>)]
        ELSE IF IsSubstring(apk_name_lower, store_name_lower)
                \/ IsSubstring(store_name_lower, apk_name_lower)
        THEN [penalty |-> 15, reason |-> Reason("MinorNameMismatch", apk_name, title)]
        ELSE [penalty |-> 40, reason |-> Reason("MajorNameMismatch", apk_name, title)]

\* Lines 67-71: the version comparison, on the strings as they are.
VersionCheckMut(apk_version, store_version) ==
    IF lower(apk_version) = lower(store_version)
    THEN [penalty |-> 0, reason |-> Reason("VersionMatch", apk_version, <<>>)]
    ELSE [penalty |-> 20, reason |-> Reason("VersionMismatch", apk_version, store_version)]

VersionCheck(apk_version, store_version) ==
    IF apk_version = store_version
    THEN [penalty |-> 0, reason |-> Reason("VersionMatch", apk_version, <<>>)]
    ELSE [penalty |-> 20, reason |-> Reason("VersionMismatch", apk_version, store_version)]

\* Line 73: the developer line.
DeveloperReason(details) == Reason("OfficialDeveloper", details.developer, <<>>)

\* Lines 74-76: the banner of a score.
BannerMut(s) ==
    IF s > 90 THEN St("success", "LikelyGenuine", <<>>, <<>>)
    ELSE IF 50 <= s /\ s < 90 THEN St("warning", "PotentiallyOutdatedOrModified", <<>>, <<>>)
    ELSE St("error", "PotentiallyFakeOrUnofficial", <<>>, <<>>)

Banner(s) ==
    IF s >= 90 THEN St("success", "LikelyGenuine", <<>>, <<>>)
    ELSE IF 50 <= s /\ s < 90 THEN St("warning", "PotentiallyOutdatedOrModified", <<>>, <<>>)
    ELSE St("error", "PotentiallyFakeOrUnofficial", <<>>, <<>>)

\* Lines 77-78: the heading and one markdown bullet per reason.
Analysis(rs) ==
    <<St("write", "Analysis", <<>>, <<>>)>>
    \o [i \in 1..Len(rs) |-> St("markdown", rs[i].kind, rs[i].a, rs[i].b)]

\* Lines 49-78: get_verdict, as the score and reasons it ends with and the
\* Streamlit calls it makes.  details is None or <<d>> for a dict d.
get_verdict_mut(apk_name, apk_version, details) ==
    LET absent == NotFoundBranch
        name == NameCheck(apk_name, details[1].title)
        version == VersionCheck(apk_version, details[1].version)
        s == IF details = None THEN 100 - absent.penalty
             ELSE 100 - name.penalty - version.penalty
        rs == IF details = None THEN <<absent.reason>>
              ELSE IF version.penalty = 0
              THEN <<name.reason, version.reason, DeveloperReason(details[1])>>
              ELSE <<name.reason, version.reason>>
    IN  [score |-> s, reasons |-> rs, calls |-> <<Banner(s)>> \o Analysis(rs)]

get_verdict(apk_name, apk_version, details) ==
    LET absent == NotFoundBranch
        name == NameCheck(apk_name, details[1].title)
        version == VersionCheck(apk_version, details[1].version)
        s == IF details = None THEN 100 - absent.penalty
             ELSE 100 - name.penalty - version.penalty
        rs == IF details = None THEN <<absent.reason>>
              ELSE <<name.reason, version.reason, DeveloperReason(details[1])>>
    IN  [score |-> s, reasons |-> rs, calls |-> <<Banner(s)>> \o Analysis(rs)]

\* Line 98: the test that tells a missing package from any other failure.
IsNotFoundMut(e) == TRUE

IsNotFound(e) == e.type = "NotFoundError"

\* Lines 85-96: the side-by-side comparison.
DetailedComparison(apk_name, apk_version, details) ==
    << St("divider", "", <<>>, <<>>),
       St("write", "DetailedComparison", <<>>, <<>>),
       St("columns", "", <<>>, <<>>),
       St("subheader", "UploadedAPK", <<>>, <<>>),
       St("info", "AppName", apk_name, <<>>),
       St("info", "Version", apk_version, <<>>),
       St("subheader", "PlayStoreListing", <<>>, <<>>),
       St("success", "AppName", details.title, <<>>),
       St("success", "Version", details.version, <<>>),
       St("link_button", "ViewOfficialPlayStorePage", details.url, <<>>) >>

\* Lines 107-112: the card of one search result.
ResultCard(result) ==
    << St("container", "", <<>>, <<>>),
       St("markdown", "Result", result.title, result.developer),
       St("text", "Package", result.appId, <<>>),
       St("link_button", "GoToPlayStorePage", result.appId, <<>>) >>

RECURSIVE ResultCards(_)
ResultCards(results) ==
    IF results = <<>> THEN <<>>
    ELSE ResultCard(Head(results)) \o ResultCards(Tail(results))

\* Lines 104-112: what is shown for the list search() returned.
ShowResultsMut(results) ==
    IF results = <<>>
    THEN <<St("error", "SearchError", <<>>, <<>>)>>
    ELSE <<St("write", "TopLegitimateApps", <<>>, <<>>)>> \o ResultCards(results)

ShowResults(results) ==
    IF results = <<>>
    THEN <<St("warning", "NoSimilarApps", <<>>, <<>>)>>
    ELSE <<St("write", "TopLegitimateApps", <<>>, <<>>)>> \o ResultCards(results)

\* Line 103: the arguments of the fallback search.
SearchArgs(apk_name) == [query |-> apk_name, n_hits |-> 3]

\* search() yields at most n_hits results, in its own ranking.
SearchReturns(args) == StrsUpTo(Candidates, args.n_hits)

Init ==
    /\ pc = "START"
    /\ app_name \in Names
    /\ package_name \in Packages
    /\ version_name \in Versions
    /\ play_details = None
    /\ exc = NoError
    /\ search_results = None
    /\ search_e = NoError
    /\ score = 100
    /\ reasons = <<>>
    /\ verdict_calls = <<>>
    /\ lookup_calls = <<>>
    /\ search_calls = <<>>
    /\ out = <<>>

Header == St("header", "PlayStoreVerdict", <<>>, <<>>)

\* Lines 81-96: app() returns a listing; the verdict and the comparison.
LookupSucceeds ==
    /\ pc = "START"
    /\ \E d \in Listings :
        LET v == get_verdict(app_name, version_name, <<d>>)
        IN  /\ play_details' = <<d>>
            /\ score' = v.score
            /\ reasons' = v.reasons
            /\ verdict_calls' = Append(verdict_calls,
                    [app_name |-> app_name, version_name |-> version_name,
                     play_details |-> <<d>>])
            /\ out' = out \o <<Header>> \o v.calls
                      \o DetailedComparison(app_name, version_name, d)
    /\ lookup_calls' = Append(lookup_calls, package_name)
    /\ pc' = "DirectComparison"
    /\ UNCHANGED <<app_name, package_name, version_name, exc, search_results,
                   search_e, search_calls>>

\* Lines 81-83, 97-101: app() raises NotFoundError; the verdict of an absent
\* listing, then the search heading.
LookupNotFound ==
    /\ pc = "START"
    /\ \E e \in LookupErrors :
        /\ IsNotFound(e)
        /\ exc' = e
    /\ LET v == get_verdict(app_name, version_name, None)
       IN  /\ score' = v.score
           /\ reasons' = v.reasons
           /\ out' = out \o <<Header>> \o v.calls
                     \o << St("divider", "", <<>>, <<>>),
                           St("subheader", "SearchingForAppsNamed", app_name, <<>>) >>
    /\ verdict_calls' = Append(verdict_calls,
            [app_name |-> app_name, version_name |-> version_name,
             play_details |-> None])
    /\ lookup_calls' = Append(lookup_calls, package_name)
    /\ pc' = "AttemptFallback"
    /\ UNCHANGED <<app_name, package_name, version_name, play_details,
                   search_results, search_e, search_calls>>

\* Lines 81-83, 97-98, 114: app() raises anything else.
LookupFails ==
    /\ pc = "START"
    /\ \E e \in LookupErrors :
        /\ ~IsNotFound(e)
        /\ exc' = e
        /\ out' = out \o <<Header, St("error", "UnexpectedError", e.msg, <<>>)>>
    /\ lookup_calls' = Append(lookup_calls, package_name)
    /\ pc' = "OrchestratorError"
    /\ UNCHANGED <<app_name, package_name, version_name, play_details,
                   search_results, search_e, score, reasons, verdict_calls,
                   search_calls>>

\* Lines 102-112: search() returns its list.
SearchSucceedsMut ==
    /\ pc = "AttemptFallback"
    /\ \E r \in SearchReturns(SearchArgs(app_name)) :
        /\ search_results' = <<r>>
        /\ out' = out \o ShowResults(r)
        /\ pc' = IF r = <<>> THEN "OrchestratorError" ELSE "FallbackSearch"
    /\ search_calls' = Append(search_calls, SearchArgs(app_name))
    /\ UNCHANGED <<app_name, package_name, version_name, play_details, exc,
                   search_e, score, reasons, verdict_calls, lookup_calls>>

SearchSucceeds ==
    /\ pc = "AttemptFallback"
    /\ \E r \in SearchReturns(SearchArgs(app_name)) :
        /\ search_results' = <<r>>
        /\ out' = out \o ShowResults(r)
    /\ search_calls' = Append(search_calls, SearchArgs(app_name))
    /\ pc' = "FallbackSearch"
    /\ UNCHANGED <<app_name, package_name, version_name, play_details, exc,
                   search_e, score, reasons, verdict_calls, lookup_calls>>

\* Lines 102-103, 113: search() raises.
SearchFailsMut ==
    /\ pc = "AttemptFallback"
    /\ \E e \in SearchErrors : search_e' = e
    /\ search_calls' = Append(search_calls, SearchArgs(app_name))
    /\ pc' = "Raised"
    /\ UNCHANGED <<app_name, package_name, version_name, play_details, exc,
                   search_results, score, reasons, verdict_calls, lookup_calls,
                   out>>

SearchFails ==
    /\ pc = "AttemptFallback"
    /\ \E e \in SearchErrors :
        /\ search_e' = e
        /\ out' = out \o <<St("error", "SearchError", e.msg, <<>>)>>
    /\ search_calls' = Append(search_calls, SearchArgs(app_name))
    /\ pc' = "FallbackSearchFailed"
    /\ UNCHANGED <<app_name, package_name, version_name, play_details, exc,
                   search_results, score, reasons, verdict_calls, lookup_calls>>

Next ==
    \/ LookupSucceeds
    \/ LookupNotFound
    \/ LookupFails
    \/ SearchSucceeds
    \/ SearchFails

Spec == Init /\ [][Next]_vars

\* Lines 74-76 on their own: the banner of any integer score.
InitBanner ==
    /\ pc = "classify"
    /\ score \in (0 - MaxProbe)..MaxProbe
    /\ app_name = <<"a">>
    /\ package_name = <<"p">>
    /\ version_name = <<"a">>
    /\ play_details = None
    /\ exc = NoError
    /\ search_results = None
    /\ search_e = NoError
    /\ reasons = <<>>
    /\ verdict_calls = <<>>
    /\ lookup_calls = <<>>
    /\ search_calls = <<>>
    /\ out = <<>>

ClassifyScore ==
    /\ pc = "classify"
    /\ out' = Append(out, Banner(score))
    /\ pc' = "classified"
    /\ UNCHANGED <<app_name, package_name, version_name, play_details, exc,
                   search_results, search_e, score, reasons, verdict_calls,
                   lookup_calls, search_calls>>

NextBanner == ClassifyScore

SpecBanner == InitBanner /\ [][NextBanner]_vars

(***************************************************************************)
(* The properties.                                                         *)
(***************************************************************************)

\* The band a banner call stands for: st.success is GENUINE, st.warning is
\* SUSPICIOUS, st.error is LIKELY_FAKE.
Band(call) ==
    IF call.fn = "success" /\ call.kind = "LikelyGenuine" THEN "GENUINE"
    ELSE IF call.fn = "warning" /\ call.kind = "PotentiallyOutdatedOrModified"
    THEN "SUSPICIOUS"
    ELSE IF call.fn = "error" /\ call.kind = "PotentiallyFakeOrUnofficial"
    THEN "LIKELY_FAKE"
    ELSE "none"

NameKinds == {"AppNameMatch", "MinorNameMismatch", "MajorNameMismatch"}
VersionKinds == {"VersionMatch", "VersionMismatch"}

Kinds(rs) == {rs[i].kind : i \in 1..Len(rs)}

\* The bullets st.markdown shows for the reasons, as positions 4.. of out
\* (after the header, the banner and the Analysis heading).
ShownReasons == [i \in 1..Len(reasons) |-> out[3 + i]]

VerdictWithListing == verdict_calls # <<>> /\ verdict_calls[1].play_details # None
VerdictAbsent == verdict_calls # <<>> /\ verdict_calls[1].play_details = None

Terminal == pc \in {"DirectComparison", "FallbackSearch", "FallbackSearchFailed",
                    "OrchestratorError"}

HasError(calls) == \E i \in 1..Len(calls) : calls[i].fn = "error"

\* C1: whatever the app name and version, get_verdict on an absent listing
\* ends with score 50, the SUSPICIOUS (warning) banner, and exactly one
\* reason, the not-found one; no name, version or developer reason.
C1_AbsentListing ==
    VerdictAbsent =>
        /\ score = 50
        /\ Band(out[2]) = "SUSPICIOUS"
        /\ Len(reasons) = 1
        /\ reasons[1].kind = "AppNotFound"
        /\ Kinds(reasons) \cap (NameKinds \cup VersionKinds \cup {"OfficialDeveloper"}) = {}
        /\ ShownReasons = <<St("markdown", "AppNotFound", <<>>, <<>>)>>
        /\ verdict_calls[1].app_name = app_name
        /\ verdict_calls[1].version_name = version_name

C1_Witness ==
    /\ VerdictAbsent
    /\ pc = "AttemptFallback"
    /\ app_name = <<"A", "b">>
    /\ version_name = <<"b">>
    /\ score = 50

\* C2: with a listing, the name penalty is decided on the lower-cased names
\* alone: 0 when they are equal, 15 when they differ but one contains the
\* other, 40 otherwise; exactly one name reason is appended and it is the one
\* of the penalty applied.  The score is 100 less the name penalty less 0 or
\* 20 for the version, so the three penalties leave disjoint pairs of scores.
C2_NamePenalty ==
    VerdictWithListing =>
        LET title == play_details[1].title
            la == lower(app_name)
            lt == lower(title)
            equal == la = lt
            within == IsSubstring(la, lt) \/ IsSubstring(lt, la)
            kind == reasons[1].kind
        IN  /\ Cardinality({i \in 1..Len(reasons) : reasons[i].kind \in NameKinds}) = 1
            /\ equal => kind = "AppNameMatch" /\ score \in {100, 80}
            /\ ~equal /\ within => kind = "MinorNameMismatch" /\ score \in {85, 65}
            /\ ~equal /\ ~within => kind = "MajorNameMismatch" /\ score \in {60, 40}
            /\ kind # "AppNameMatch" => reasons[1].a = app_name /\ reasons[1].b = title
            \* "Ab" against "ab" is a match; "A" against "ab" a minor mismatch.
            /\ app_name = <<"A", "b">> /\ title = <<"a", "b">> => kind = "AppNameMatch"
            /\ app_name = <<"A">> /\ title = <<"a", "b">> => kind = "MinorNameMismatch"
            /\ app_name = <<"A", "b">> /\ title = <<"b", "b">> => kind = "MajorNameMismatch"

C2_Witness ==
    /\ VerdictWithListing
    /\ app_name = <<"A">>
    /\ play_details[1].title = <<"b", "a">>
    /\ reasons[1].kind = "MinorNameMismatch"
    /\ score = 85

\* The penalty a reason stands for.
PenaltyOf(kind) ==
    IF kind = "MinorNameMismatch" THEN 15
    ELSE IF kind = "MajorNameMismatch" THEN 40
    ELSE IF kind = "VersionMismatch" THEN 20
    ELSE 0

\* C3: with a listing, the version check is exact, case-sensitive equality
\* of the two strings, whatever the name outcome: equal versions deduct
\* nothing, unequal ones 20, and the score is 100 less the name penalty less
\* the version penalty; a major name mismatch with a version mismatch is 40.
C3_VersionPenalty ==
    VerdictWithListing =>
        LET store == play_details[1].version
            same == version_name = store
        IN  /\ reasons[2].kind = IF same THEN "VersionMatch" ELSE "VersionMismatch"
            /\ reasons[2].a = version_name
            /\ ~same => reasons[2].b = store
            /\ reasons[1].kind \in NameKinds
            /\ score = 100 - PenaltyOf(reasons[1].kind) - (IF same THEN 0 ELSE 20)
            /\ reasons[1].kind = "MajorNameMismatch" /\ ~same => score = 40

C3_Witness ==
    /\ VerdictWithListing
    /\ version_name = <<"a">>
    /\ play_details[1].version = <<"A">>
    /\ reasons[1].kind = "MajorNameMismatch"
    /\ reasons[2].kind = "VersionMismatch"
    /\ score = 40

\* C4: with a listing, get_verdict produces exactly three reasons, the name
\* reason, then the version reason, then the developer reason, and shows
\* them in that order; the developer reason is there whatever the name and
\* version outcomes and takes nothing off the score.
C4_ThreeReasons ==
    VerdictWithListing =>
        /\ Len(reasons) = 3
        /\ reasons[1].kind \in NameKinds
        /\ reasons[2].kind \in VersionKinds
        /\ reasons[3] = Reason("OfficialDeveloper", play_details[1].developer, <<>>)
        /\ ShownReasons = [i \in 1..3 |->
                St("markdown", reasons[i].kind, reasons[i].a, reasons[i].b)]
        /\ score = 100 - PenaltyOf(reasons[1].kind) - PenaltyOf(reasons[2].kind)

C4_Witness ==
    /\ VerdictWithListing
    /\ Len(reasons) = 3
    /\ reasons[1].kind = "MajorNameMismatch"
    /\ reasons[2].kind = "VersionMismatch"
    /\ reasons[3].kind = "OfficialDeveloper"

\* C5: every integer score gets exactly one band: 90 and above GENUINE, 50
\* to 89 SUSPICIOUS, below 50 LIKELY_FAKE; so 90 is GENUINE, 50 SUSPICIOUS
\* and 49 LIKELY_FAKE.
C5_Partition ==
    pc = "classified" =>
        LET band == Band(out[Len(out)])
        IN  /\ Len(out) = 1
            /\ band \in {"GENUINE", "SUSPICIOUS", "LIKELY_FAKE"}
            /\ band = "GENUINE" <=> score >= 90
            /\ band = "SUSPICIOUS" <=> (50 <= score /\ score < 90)
            /\ band = "LIKELY_FAKE" <=> score < 50
            /\ score = 90 => band = "GENUINE"
            /\ score = 50 => band = "SUSPICIOUS"
            /\ score = 49 => band = "LIKELY_FAKE"

C5_Witness ==
    /\ pc = "classified"
    /\ score = 90
    /\ Band(out[1]) = "GENUINE"

\* C6: when app() fails with anything but NotFoundError, the invocation ends
\* in OrchestratorError showing that failure's description; search() is
\* never called and no verdict is computed.
C6_OtherLookupFailure ==
    (lookup_calls # <<>> /\ play_details = None /\ exc.type # "NotFoundError") =>
        /\ pc = "OrchestratorError"
        /\ ~ENABLED Next
        /\ out = <<Header, St("error", "UnexpectedError", exc.msg, <<>>)>>
        /\ search_calls = <<>>
        /\ verdict_calls = <<>>
        /\ search_results = None

C6_Witness ==
    /\ pc = "OrchestratorError"
    /\ exc.type = "URLError"
    /\ search_calls = <<>>

\* C7: when app() fails with NotFoundError, the absent-listing verdict
\* (score 50) is computed before search() is called, and search() is then
\* called exactly once, with the app name and a limit of 3; when it returns
\* no candidates the outcome is FallbackSearch with an empty list, shown as
\* "no similar apps" under that verdict and not as an error.
C7_FallbackSearch ==
    /\ pc = "AttemptFallback" =>
            /\ exc.type = "NotFoundError"
            /\ verdict_calls = <<[app_name |-> app_name, version_name |-> version_name,
                                  play_details |-> None]>>
            /\ score = 50
            /\ search_calls = <<>>
    /\ search_calls # <<>> =>
            /\ search_calls = <<[query |-> app_name, n_hits |-> 3]>>
            /\ exc.type = "NotFoundError"
            /\ Len(verdict_calls) = 1
            /\ VerdictAbsent
    /\ search_results # None =>
            /\ pc = "FallbackSearch"
            /\ Len(search_calls) = 1
            /\ Len(search_results[1]) <= 3
    /\ (search_results # None /\ search_results[1] = <<>>) =>
            /\ out[Len(out)] = St("warning", "NoSimilarApps", <<>>, <<>>)
            /\ ~HasError(out)
            /\ score = 50
            /\ Band(out[2]) = "SUSPICIOUS"
            /\ out[4] = St("markdown", "AppNotFound", <<>>, <<>>)

C7_Witness ==
    /\ pc = "FallbackSearch"
    /\ search_results = <<<<>>>>
    /\ Len(search_calls) = 1
    /\ score = 50

\* C8: when app() fails with NotFoundError and search() then fails too, the
\* search failure does not leave handle_comparison: the invocation ends in
\* FallbackSearchFailed showing the search failure's description, below the
\* absent-listing verdict that was shown before the search, which stays.
C8_SearchFailure ==
    search_e # NoError =>
        /\ pc = "FallbackSearchFailed"
        /\ ~ENABLED Next
        /\ exc.type = "NotFoundError"
        /\ out[Len(out)] = St("error", "SearchError", search_e.msg, <<>>)
        /\ score = 50
        /\ reasons = <<Reason("AppNotFound", <<>>, <<>>)>>
        /\ SubSeq(out, 1, Len(out) - 1) =
                <<Header>> \o get_verdict(app_name, version_name, None).calls
                \o << St("divider", "", <<>>, <<>>),
                      St("subheader", "SearchingForAppsNamed", app_name, <<>>) >>
        /\ Band(out[2]) = "SUSPICIOUS"
        /\ out[4] = St("markdown", "AppNotFound", <<>>, <<>>)

C8_Witness ==
    /\ pc = "FallbackSearchFailed"
    /\ search_e.type = "ExtraHTTPError"
    /\ exc.type = "NotFoundError"

\* The transitions of the workflow.
Edges ==
    { <<"START", "DirectComparison">>, <<"START", "AttemptFallback">>,
      <<"START", "OrchestratorError">>, <<"AttemptFallback", "FallbackSearch">>,
      <<"AttemptFallback", "FallbackSearchFailed">> }

C9_Step ==
    /\ <<pc, pc'>> \in Edges
    /\ pc' = "DirectComparison" =>
            /\ play_details' # None
            /\ verdict_calls' = <<[app_name |-> app_name, version_name |-> version_name,
                                   play_details |-> play_details']>>
            /\ score' = get_verdict(app_name, version_name, play_details').score
            /\ search_calls' = <<>>
    /\ pc' = "AttemptFallback" => exc'.type = "NotFoundError"
    /\ pc' = "OrchestratorError" => exc'.type # "NotFoundError"

C9_State ==
    /\ pc \in {"START", "AttemptFallback"} \cup
              {"DirectComparison", "FallbackSearch", "FallbackSearchFailed",
               "OrchestratorError"}
    /\ Terminal <=> ~ENABLED Next
    /\ pc = "DirectComparison" => play_details # None /\ search_calls = <<>>
    /\ pc \in {"FallbackSearch", "FallbackSearchFailed"} =>
            exc.type = "NotFoundError" /\ Len(search_calls) = 1

\* C9: every invocation ends in exactly one of DirectComparison,
\* FallbackSearch, FallbackSearchFailed and OrchestratorError (a state that
\* is not one of them always has a step, every step moves along an edge of
\* the workflow, and the four have none), and only along the stated edges:
\* DirectComparison only when app() returned, with the verdict of the listing
\* it returned and without a search; FallbackSearch and FallbackSearchFailed
\* only through AttemptFallback after a NotFoundError; OrchestratorError
\* straight from START.
C9_Workflow == [][C9_Step]_vars /\ []C9_State

C9_Witness ==
    /\ pc = "DirectComparison"
    /\ play_details # None
    /\ Len(verdict_calls) = 1
    /\ search_calls = <<>>

\* C10 as stated: when an invocation starts there are an app name, a version
\* and a listing (or none) that take the final score of get_verdict below 0.
C10_ScoreBelowZero ==
    pc = "START" =>
    \E n \in Names, v \in Versions, d \in {None} \cup {<<l>> : l \in Listings} :
        get_verdict(n, v, d).score < 0

\* C10, amended: no input takes the final score below 0; a computed score is
\* one of 100, 85, 80, 65, 60, 50 and 40, and 40 (a major name mismatch with
\* a version mismatch) is the lowest.
C10_ScoreFloor ==
    verdict_calls # <<>> =>
        /\ score \in {100, 85, 80, 65, 60, 50, 40}
        /\ score >= 40
        /\ score >= 0

C10_Witness ==
    /\ verdict_calls # <<>>
    /\ score = 40

====
